---- MODULE Spec2Model ----
(***************************************************************************)
(* Component configuration and search-space model of the Energy Modeling   *)
(* Optimizer (src/app.py).                                                 *)
(*                                                                         *)
(* The program is a Streamlit script: every user event (a button click, a  *)
(* slider move, a toggle) re-executes the script from the top with the     *)
(* session state and the widget values of the session.  One action of this *)
(* module is one user event together with the script runs it causes, up to *)
(* the run that reaches the end of the script (st.rerun() aborts a run and *)
(* starts the next one).                                                   *)
(*                                                                         *)
(* Capacities, steps and durations are held in tenths of a unit (the       *)
(* sliders move on 0.1 / 0.5 / 1.0 grids), so 1.0 MW is 10.  The target    *)
(* unmet load is held in tenths of a percent.                              *)
(***************************************************************************)
EXTENDS Integers, FiniteSets, Sequences, TLC

VARIABLES
    pv_config,           \* st.session_state.pv_config
    wind_config,         \* st.session_state.wind_config
    hydro_config,        \* st.session_state.hydro_config
    bess_config,         \* st.session_state.bess_config
    selected_component,  \* st.session_state.selected_component ("none": key absent)
    load_profile,        \* st.session_state.load_profile
    target_unmet,        \* st.session_state.target_unmet
    form,                \* values of the widgets of the open configuration panel
    load_file_upload,    \* value of the sidebar file uploader widget
    topology_fig,        \* edges drawn by the last create_interactive_topology call
    sidebar,             \* search-space metrics computed by the last sidebar run
    panel,               \* num_opts and band shown by the open panel
    edits                \* number of widget value changes made so far

store == <<pv_config, wind_config, hydro_config, bess_config>>

vars == <<pv_config, wind_config, hydro_config, bess_config, selected_component,
          load_profile, target_unmet, form, load_file_upload, topology_fig,
          sidebar, panel, edits>>

(***************************************************************************)
(* Bounds of the exploration.                                              *)
(***************************************************************************)
\* a slider is moved to one of MaxPos positions, taken from the two ends of
\* its range inwards: lowest, top, second lowest, ...
MaxPos == 1
\* number of widget value changes in a session
MaxEdits == 1

Components == {"pv", "wind", "hydro", "bess"}

NoForm == [enabled |-> FALSE]

(***************************************************************************)
(* Session state defaults (first script run).                              *)
(***************************************************************************)
DefaultPv ==
    [enabled |-> TRUE, min |-> 10, max |-> 50, step |-> 10,
     capex |-> 1000, opex |-> 10, lifetime |-> 25, profile |-> "None"]

DefaultWind ==
    [enabled |-> TRUE, min |-> 0, max |-> 30, step |-> 10,
     capex |-> 1200, opex |-> 15, lifetime |-> 20, profile |-> "None"]

DefaultHydro ==
    [enabled |-> TRUE, min |-> 0, max |-> 20, step |-> 10,
     hours_per_day |-> 8, capex |-> 2000, opex |-> 20, lifetime |-> 50,
     profile |-> "None"]

DefaultBess ==
    [enabled |-> TRUE, min_power |-> 50, max_power |-> 200, step_power |-> 50,
     duration |-> 40, min_soc |-> 20, max_soc |-> 100,
     charge_eff |-> 95, discharge_eff |-> 95,
     power_capex |-> 300, energy_capex |-> 200, opex |-> 2, lifetime |-> 15]

\* the stored spec of component c
Config(c) ==
    CASE c = "pv"    -> pv_config
      [] c = "wind"  -> wind_config
      [] c = "hydro" -> hydro_config
      [] c = "bess"  -> bess_config

(***************************************************************************)
(* Widgets.  A slider yields a value of its grid lo, lo+st, ..., hi; the    *)
(* exploration moves it to positions at the two ends of the grid.          *)
(***************************************************************************)
Positions(lo, hi, st) ==
    {v \in {IF k % 2 = 0 THEN lo + (k \div 2) * st ELSE hi - (k \div 2) * st :
                 k \in 0..(MaxPos - 1)} : lo <= v /\ v <= hi}

\* (max - min, step) pairs of the slider grids, in tenths, whose binary64
\* quotient is the double just below the exact integer quotient
\* (16.5 / 1.1 is 14.999999999999998)
Binary64Short ==
    {<<165, 11>>, <<275, 11>>, <<330, 11>>, <<330, 22>>, <<405, 27>>, <<495, 11>>}

\* the positions of the wind capacity and step sliders that meet such a pair
ShortCap == {165}
ShortStep == {11}

\* st.number_input(value=v, step=s) without min_value / max_value: the stored
\* value or one step up
NumberInput(v, s) == {v, v + s}

\* st.file_uploader: nothing uploaded, or an uploaded file
FileUploader(name) == {"None", name}

\* "Min (MW)" / "Max (MW)" of PV: st.slider(0.0, 50.0, step 0.5)
CapSlider == Positions(0, 500, 5)
\* "Min (MW)" / "Max (MW)" of wind: st.slider(0.0, 50.0, step 0.5)
WindCapSlider == Positions(0, 500, 5) \cup ShortCap
\* "Min (MW)" / "Max (MW)" of hydro: st.slider(0.0, 30.0, step 0.5)
HydroCapSlider == Positions(0, 300, 5)
\* a step slider whose range starts at 0.0
StepSlider_FromZero == Positions(0, 100, 1)

\* "Step (MW)" of PV and hydro: st.slider(0.1, 10.0, step 0.1)
StepSlider == Positions(1, 100, 1)
\* "Step (MW)" of wind: st.slider(0.1, 10.0, step 0.1)
WindStepSlider == Positions(1, 100, 1) \cup ShortStep
\* an hours slider whose range starts at 0
HoursSlider_FromZero == Positions(0, 24, 1)

\* "Operating Hours per Day": st.slider(1, 24)
HoursSlider == Positions(1, 24, 1)
\* "Min (MW)" / "Max (MW)" of BESS: st.slider(0.0, 100.0, step 1.0)
BessPowerSlider == Positions(0, 1000, 10)
\* "Step (MW)" of BESS: st.slider(0.5, 20.0, step 0.5)
BessStepSlider == Positions(5, 200, 5)
\* "Duration (hours)": st.slider(0.5, 8.0, step 0.5)
DurationSlider == Positions(5, 80, 5)
\* "Min SOC (%)" / "Max SOC (%)": st.slider(0, 100, step 5)
SocSlider == Positions(0, 100, 5)
\* "Charge Efficiency (%)" / "Discharge Efficiency (%)": st.slider(50, 100, step 1)
EffSlider == Positions(50, 100, 1)
\* "Target Unmet Load (%)": st.number_input(min_value=0.0, max_value=5.0, step=0.1)
TargetUnmetInput == Positions(0, 50, 1)

\* the values each widget of the open panel of component c can take
Widgets(c) ==
    CASE c = "pv" ->
           [min      |-> CapSlider,
            max      |-> CapSlider,
            step     |-> StepSlider,
            capex    |-> NumberInput(pv_config.capex, 50),
            opex     |-> NumberInput(pv_config.opex, 1),
            lifetime |-> NumberInput(pv_config.lifetime, 1),
            profile  |-> FileUploader("pv_file")]
      [] c = "wind" ->
           [min      |-> WindCapSlider,
            max      |-> WindCapSlider,
            step     |-> WindStepSlider,
            capex    |-> NumberInput(wind_config.capex, 50),
            opex     |-> NumberInput(wind_config.opex, 1),
            lifetime |-> NumberInput(wind_config.lifetime, 1),
            profile  |-> FileUploader("wind_file")]
      [] c = "hydro" ->
           [min      |-> HydroCapSlider,
            max      |-> HydroCapSlider,
            step     |-> StepSlider,
            hours_per_day |-> HoursSlider,
            capex    |-> NumberInput(hydro_config.capex, 50),
            opex     |-> NumberInput(hydro_config.opex, 1),
            lifetime |-> NumberInput(hydro_config.lifetime, 1),
            profile  |-> FileUploader("hydro_file")]
      [] c = "bess" ->
           [min_power     |-> BessPowerSlider,
            max_power     |-> BessPowerSlider,
            step_power    |-> BessStepSlider,
            duration      |-> DurationSlider,
            min_soc       |-> SocSlider,
            max_soc       |-> SocSlider,
            charge_eff    |-> EffSlider,
            discharge_eff |-> EffSlider,
            power_capex   |-> NumberInput(bess_config.power_capex, 10),
            energy_capex  |-> NumberInput(bess_config.energy_capex, 10),
            opex          |-> NumberInput(bess_config.opex, 1),
            lifetime      |-> NumberInput(bess_config.lifetime, 1)]

\* the widget values of freshly rendered inputs: each input starts from the
\* stored spec, the file uploader starts empty
InputsFromStore(c) ==
    IF c = "bess" THEN Config(c) ELSE [Config(c) EXCEPT !.profile = "None"]

\* the widgets the panel of c renders with its toggle on or off: the inputs are
\* rendered only below a toggle that is on
PanelWidgets(c, on) ==
    IF on THEN [InputsFromStore(c) EXCEPT !.enabled = TRUE] ELSE [enabled |-> FALSE]

\* the widget values of a freshly rendered panel: the toggle starts from the
\* stored enabled flag
FreshForm(c) == PanelWidgets(c, Config(c).enabled)

(***************************************************************************)
(* Search space (sidebar).                                                 *)
(***************************************************************************)
Abs(x) == IF x >= 0 THEN x ELSE -x

\* Python int(d / s) for s > 0: binary64 division, then truncation toward zero
IntQuot(d, s) ==
    LET q == IF <<Abs(d), s>> \in Binary64Short
             THEN (Abs(d) \div s) - 1
             ELSE Abs(d) \div s
    IN  IF d >= 0 THEN q ELSE -q

\* no panel is rendered, or its toggle is off: no feedback is shown
NoFeedback == [band |-> "none"]

\* num_opts of an open panel: int((max_cap - min_cap) / step) + 1 if step > 0 else 1
NumOpts(min_cap, max_cap, step) ==
    IF step > 0 THEN IntQuot(max_cap - min_cap, step) + 1 ELSE 1

\* a PV band whose first threshold is exclusive
PvBand_Exclusive(num_opts) ==
    IF num_opts < 10 THEN "small" ELSE IF num_opts <= 50 THEN "medium" ELSE "large"

\* the message shown under the step slider: success / warning / error
PvBand(num_opts) ==
    IF num_opts <= 10 THEN "small" ELSE IF num_opts <= 50 THEN "medium" ELSE "large"

WindBand(num_opts) ==
    IF num_opts <= 10 THEN "small" ELSE IF num_opts <= 50 THEN "medium" ELSE "large"

HydroBand(num_opts) ==
    IF num_opts <= 10 THEN "small" ELSE IF num_opts <= 50 THEN "medium" ELSE "large"

BessBand(num_opts) ==
    IF num_opts <= 10 THEN "small" ELSE IF num_opts <= 50 THEN "medium" ELSE "large"

\* the feedback rendered by the panel of c for the widget values f
PanelFeedback(c, f) ==
    IF c \notin Components \/ ~f.enabled THEN NoFeedback
    ELSE CASE c = "pv" ->
                [num_opts |-> NumOpts(f.min, f.max, f.step),
                 band |-> PvBand(NumOpts(f.min, f.max, f.step))]
           [] c = "wind" ->
                [num_opts |-> NumOpts(f.min, f.max, f.step),
                 band |-> WindBand(NumOpts(f.min, f.max, f.step))]
           [] c = "hydro" ->
                [num_opts |-> NumOpts(f.min, f.max, f.step),
                 band |-> HydroBand(NumOpts(f.min, f.max, f.step))]
           [] c = "bess" ->
                [num_opts |-> NumOpts(f.min_power, f.max_power, f.step_power),
                 band |-> BessBand(NumOpts(f.min_power, f.max_power, f.step_power))]

\* the PV count without the test of the enabled flag
PvOpts_IgnoresEnabled(cfg) ==
    IF cfg.step > 0 THEN IntQuot(cfg.max - cfg.min, cfg.step) + 1 ELSE 1

PvOpts(cfg) ==
    IF cfg.enabled /\ cfg.step > 0
    THEN IntQuot(cfg.max - cfg.min, cfg.step) + 1 ELSE 1

WindOpts(cfg) ==
    IF cfg.enabled /\ cfg.step > 0
    THEN IntQuot(cfg.max - cfg.min, cfg.step) + 1 ELSE 1

HydroOpts(cfg) ==
    IF cfg.enabled /\ cfg.step > 0
    THEN IntQuot(cfg.max - cfg.min, cfg.step) + 1 ELSE 1

BessOpts(cfg) ==
    IF cfg.enabled /\ cfg.step_power > 0
    THEN IntQuot(cfg.max_power - cfg.min_power, cfg.step_power) + 1 ELSE 1

\* a total that leaves the BESS count out
TotalCombinations_WithoutBess(pv_opts, wind_opts, hydro_opts, bess_opts) ==
    pv_opts * wind_opts * hydro_opts

TotalCombinations(pv_opts, wind_opts, hydro_opts, bess_opts) ==
    pv_opts * wind_opts * hydro_opts * bess_opts

\* total_combinations * 0.05 / 60 minutes is total_combinations / 1200 minutes:
\* estimated runtimes are held in 1/1200 of a minute, so 1 minute is 1200
TicksPerMinute == 1200

\* an estimate without the one-minute floor
EstTime_NoFloor(total) == total

\* est_time = max(1, total_combinations * 0.05 / 60)
EstTime(total) == IF total > TicksPerMinute THEN total ELSE TicksPerMinute

\* the metrics the sidebar shows for the given store contents
SearchSpace(pv, wind, hydro, bess) ==
    LET pv_opts    == PvOpts(pv)
        wind_opts  == WindOpts(wind)
        hydro_opts == HydroOpts(hydro)
        bess_opts  == BessOpts(bess)
        total_combinations ==
            TotalCombinations(pv_opts, wind_opts, hydro_opts, bess_opts)
    IN  [pv_opts    |-> pv_opts,
         wind_opts  |-> wind_opts,
         hydro_opts |-> hydro_opts,
         bess_opts  |-> bess_opts,
         total_combinations |-> total_combinations,
         est_time   |-> EstTime(total_combinations)]

(***************************************************************************)
(* Topology diagram: the list of edges (start node, end node, colour).     *)
(***************************************************************************)
\* a topology that draws the storage edge whatever the BESS flag is
create_interactive_topology_BessAlways(pv_cfg, wind_cfg, hydro_cfg, bess_cfg) ==
    (IF pv_cfg.enabled THEN << <<"pv", "bus", "#FDB462">> >> ELSE << >>)
    \o (IF wind_cfg.enabled THEN << <<"wind", "bus", "#80B1D3">> >> ELSE << >>)
    \o (IF hydro_cfg.enabled THEN << <<"hydro", "bus", "#8DD3C7">> >> ELSE << >>)
    \o << <<"bus", "load", "#FFD700">> >>
    \o << <<"bus", "bess", "#FB8072">> >>

create_interactive_topology(pv_cfg, wind_cfg, hydro_cfg, bess_cfg) ==
    (IF pv_cfg.enabled THEN << <<"pv", "bus", "#FDB462">> >> ELSE << >>)
    \o (IF wind_cfg.enabled THEN << <<"wind", "bus", "#80B1D3">> >> ELSE << >>)
    \o (IF hydro_cfg.enabled THEN << <<"hydro", "bus", "#8DD3C7">> >> ELSE << >>)
    \o << <<"bus", "load", "#FFD700">> >>
    \o (IF bess_cfg.enabled THEN << <<"bus", "bess", "#FB8072">> >> ELSE << >>)

\* every edge is drawn as one line with one arrow head at its midpoint, pointing
\* from its start node to its end node: the flow directions the diagram shows
FlowDirections(edges) == {<<edges[i][1], edges[i][2]>> : i \in 1..Len(edges)}

(***************************************************************************)
(* The script run that reaches the end of the script: it draws the         *)
(* topology from the store, then the sidebar stores the global settings    *)
(* and computes the search space.  unmet is the value of the target unmet  *)
(* load input.                                                             *)
(***************************************************************************)
RunToEnd(unmet) ==
    /\ topology_fig' = create_interactive_topology(pv_config', wind_config',
                                                   hydro_config', bess_config')
    /\ load_profile' = IF load_file_upload' # "None"
                       THEN load_file_upload' ELSE load_profile
    /\ panel' = PanelFeedback(selected_component', form')
    /\ target_unmet' = unmet
    /\ sidebar' = SearchSpace(pv_config', wind_config', hydro_config', bess_config')

Init ==
    /\ pv_config = DefaultPv
    /\ wind_config = DefaultWind
    /\ hydro_config = DefaultHydro
    /\ bess_config = DefaultBess
    /\ selected_component = "none"
    /\ load_profile = "None"
    /\ target_unmet = 1
    /\ form = NoForm
    /\ load_file_upload = "None"
    /\ topology_fig = create_interactive_topology(DefaultPv, DefaultWind,
                                                  DefaultHydro, DefaultBess)
    /\ sidebar = SearchSpace(DefaultPv, DefaultWind, DefaultHydro, DefaultBess)
    /\ panel = NoFeedback
    /\ edits = 0

(***************************************************************************)
(* User events.                                                            *)
(***************************************************************************)
\* a Configure button that works only while no panel is open
Configure_OnlyWhenIdle(c) ==
    /\ selected_component = "none"
    /\ selected_component' = c
    /\ form' = FreshForm(c)
    /\ UNCHANGED <<store, load_file_upload, edits>>
    /\ RunToEnd(target_unmet)

\* "Configure <component>" button: selects c, reruns, the panel of c opens
Configure(c) ==
    /\ selected_component' = c
    /\ form' = IF selected_component = c THEN form ELSE FreshForm(c)
    /\ UNCHANGED <<store, load_file_upload, edits>>
    /\ RunToEnd(target_unmet)

\* the "Enable <component>" toggle of the open panel is flipped; the inputs
\* below it are rendered only while it is on, and start from the stored spec
Toggle(c) ==
    /\ selected_component = c
    /\ form' = PanelWidgets(c, ~form.enabled)
    /\ UNCHANGED <<store, selected_component, load_file_upload, edits>>
    /\ RunToEnd(target_unmet)

\* a slider, number input or file uploader f of the open panel is set to v
SetWidget(c, f, v) ==
    /\ selected_component = c
    /\ form.enabled
    /\ edits < MaxEdits
    /\ v # form[f]
    /\ form' = [form EXCEPT ![f] = v]
    /\ edits' = edits + 1
    /\ UNCHANGED <<store, selected_component, load_file_upload>>
    /\ RunToEnd(target_unmet)

\* a handler that deletes the selection and lets the run go on to the sidebar
\* instead of rerunning: the topology of that run was drawn before the write
ClosePanel_NoRerun ==
    /\ selected_component' = "none"
    /\ form' = NoForm
    /\ UNCHANGED <<load_file_upload, edits, panel, load_profile, target_unmet>>
    /\ topology_fig' = create_interactive_topology(pv_config, wind_config,
                                                   hydro_config, bess_config)
    /\ sidebar' = SearchSpace(pv_config', wind_config', hydro_config', bess_config')

\* after a save or a cancel: the selection is deleted, the script reruns and
\* no panel is rendered
ClosePanel ==
    /\ selected_component' = "none"
    /\ form' = NoForm
    /\ UNCHANGED <<load_file_upload, edits>>
    /\ RunToEnd(target_unmet)

\* a PV save that keeps the stored OpEx instead of the submitted one
SavePv_StaleOpex ==
    /\ selected_component = "pv"
    /\ form.enabled
    /\ pv_config' = [enabled |-> form.enabled, min |-> form.min, max |-> form.max,
                     step |-> form.step, capex |-> form.capex, opex |-> pv_config.opex,
                     lifetime |-> form.lifetime, profile |-> form.profile]
    /\ UNCHANGED <<wind_config, hydro_config, bess_config>>
    /\ ClosePanel

SavePv ==
    /\ selected_component = "pv"
    /\ form.enabled
    /\ pv_config' = [enabled |-> form.enabled, min |-> form.min, max |-> form.max,
                     step |-> form.step, capex |-> form.capex, opex |-> form.opex,
                     lifetime |-> form.lifetime, profile |-> form.profile]
    /\ UNCHANGED <<wind_config, hydro_config, bess_config>>
    /\ ClosePanel

\* a wind save pasted from the PV panel: it also assigns the PV spec
SaveWind_AlsoWritesPv ==
    /\ selected_component = "wind"
    /\ form.enabled
    /\ wind_config' = [enabled |-> form.enabled, min |-> form.min, max |-> form.max,
                       step |-> form.step, capex |-> form.capex, opex |-> form.opex,
                       lifetime |-> form.lifetime, profile |-> form.profile]
    /\ pv_config' = wind_config'
    /\ UNCHANGED <<hydro_config, bess_config>>
    /\ ClosePanel

SaveWind ==
    /\ selected_component = "wind"
    /\ form.enabled
    /\ wind_config' = [enabled |-> form.enabled, min |-> form.min, max |-> form.max,
                       step |-> form.step, capex |-> form.capex, opex |-> form.opex,
                       lifetime |-> form.lifetime, profile |-> form.profile]
    /\ UNCHANGED <<pv_config, hydro_config, bess_config>>
    /\ ClosePanel

SaveHydro ==
    /\ selected_component = "hydro"
    /\ form.enabled
    /\ hydro_config' = [enabled |-> form.enabled, min |-> form.min, max |-> form.max,
                        step |-> form.step, hours_per_day |-> form.hours_per_day,
                        capex |-> form.capex, opex |-> form.opex,
                        lifetime |-> form.lifetime, profile |-> form.profile]
    /\ UNCHANGED <<pv_config, wind_config, bess_config>>
    /\ ClosePanel

SaveBess ==
    /\ selected_component = "bess"
    /\ form.enabled
    /\ bess_config' = [enabled |-> form.enabled, min_power |-> form.min_power,
                       max_power |-> form.max_power, step_power |-> form.step_power,
                       duration |-> form.duration, min_soc |-> form.min_soc,
                       max_soc |-> form.max_soc, charge_eff |-> form.charge_eff,
                       discharge_eff |-> form.discharge_eff,
                       power_capex |-> form.power_capex,
                       energy_capex |-> form.energy_capex,
                       opex |-> form.opex, lifetime |-> form.lifetime]
    /\ UNCHANGED <<pv_config, wind_config, hydro_config>>
    /\ ClosePanel

\* "Save Configuration" with the toggle off
\* a toggle-off save that replaces the PV spec by freshly built values
DisablePv_WholeSpec ==
    /\ selected_component = "pv"
    /\ ~form.enabled
    /\ pv_config' = [InputsFromStore("pv") EXCEPT !.enabled = FALSE]
    /\ UNCHANGED <<wind_config, hydro_config, bess_config>>
    /\ ClosePanel

DisablePv ==
    /\ selected_component = "pv"
    /\ ~form.enabled
    /\ pv_config' = [pv_config EXCEPT !.enabled = FALSE]
    /\ UNCHANGED <<wind_config, hydro_config, bess_config>>
    /\ ClosePanel

DisableWind ==
    /\ selected_component = "wind"
    /\ ~form.enabled
    /\ wind_config' = [wind_config EXCEPT !.enabled = FALSE]
    /\ UNCHANGED <<pv_config, hydro_config, bess_config>>
    /\ ClosePanel

DisableHydro ==
    /\ selected_component = "hydro"
    /\ ~form.enabled
    /\ hydro_config' = [hydro_config EXCEPT !.enabled = FALSE]
    /\ UNCHANGED <<pv_config, wind_config, bess_config>>
    /\ ClosePanel

DisableBess ==
    /\ selected_component = "bess"
    /\ ~form.enabled
    /\ bess_config' = [bess_config EXCEPT !.enabled = FALSE]
    /\ UNCHANGED <<pv_config, wind_config, hydro_config>>
    /\ ClosePanel

\* a Cancel button wired to the save handler: it stores the widget values
Cancel_StoresForm(c) ==
    /\ selected_component = c
    /\ form.enabled
    /\ pv_config' = IF c = "pv" THEN form ELSE pv_config
    /\ wind_config' = IF c = "wind" THEN form ELSE wind_config
    /\ hydro_config' = IF c = "hydro" THEN form ELSE hydro_config
    /\ bess_config' = IF c = "bess" THEN form ELSE bess_config
    /\ ClosePanel

\* "Cancel", shown beside the save button while the toggle is on
Cancel(c) ==
    /\ selected_component = c
    /\ form.enabled
    /\ UNCHANGED store
    /\ ClosePanel

\* sidebar: a load profile is uploaded or removed
UploadLoadProfile(v) ==
    /\ edits < MaxEdits
    /\ v # load_file_upload
    /\ load_file_upload' = v
    /\ edits' = edits + 1
    /\ UNCHANGED <<store, selected_component, form>>
    /\ RunToEnd(target_unmet)

\* sidebar: the target unmet load input is changed
SetTargetUnmet(v) ==
    /\ edits < MaxEdits
    /\ v # target_unmet
    /\ edits' = edits + 1
    /\ UNCHANGED <<store, selected_component, form, load_file_upload>>
    /\ RunToEnd(v)

Next ==
    \/ \E c \in Components : Configure(c)
    \/ \E c \in {selected_component} \cap Components : Toggle(c)
    \/ \E c \in {selected_component} \cap Components :
           LET widgets == Widgets(c)
           IN  \E f \in DOMAIN widgets : \E v \in widgets[f] : SetWidget(c, f, v)
    \/ SavePv
    \/ SaveWind
    \/ SaveHydro
    \/ SaveBess
    \/ DisablePv
    \/ DisableWind
    \/ DisableHydro
    \/ DisableBess
    \/ \E c \in {selected_component} \cap Components : Cancel(c)
    \/ \E v \in FileUploader("load_file") : UploadLoadProfile(v)
    \/ \E v \in TargetUnmetInput : SetTargetUnmet(v)

Spec == Init /\ [][Next]_vars

(***************************************************************************)
(* Properties.                                                             *)
(***************************************************************************)
GenerationComponents == {"pv", "wind", "hydro"}

\* floor(d / s) + 1 for s > 0, over the exact quotient
FloorCount(d, s) == (d \div s) + 1

HasEdge(a, b) ==
    \E i \in 1..Len(topology_fig) : topology_fig[i][1] = a /\ topology_fig[i][2] = b

\* C1: a save whose submitted range is inverted (min > max) leaves the stored
\* spec of that component as it was before the save.
C1_InvertedSaveRejected ==
    [][ /\ (SavePv /\ form.min > form.max) => (pv_config' = pv_config)
        /\ (SaveWind /\ form.min > form.max) => (wind_config' = wind_config)
        /\ (SaveHydro /\ form.min > form.max) => (hydro_config' = hydro_config)
        /\ (SaveBess /\ form.min_power > form.max_power) => (bess_config' = bess_config)
      ]_vars

\* C2: a save of component c replaces the stored spec of c with exactly the
\* submitted widget values, and no component is selected right after it.
C2_SaveReplacesSpec ==
    [][ /\ SavePv => (pv_config' = form /\ selected_component' = "none")
        /\ SaveWind => (wind_config' = form /\ selected_component' = "none")
        /\ SaveHydro => (hydro_config' = form /\ selected_component' = "none")
        /\ SaveBess => (bess_config' = form /\ selected_component' = "none")
      ]_vars

\* a save has stored a PV spec with a submitted OpEx, and nothing is selected
C2_Witness ==
    /\ selected_component = "none"
    /\ pv_config.enabled
    /\ pv_config.opex # DefaultPv.opex

\* C3: for every enabled stored spec with step > 0 the option count shown is
\* floor((max - min) / step) + 1.
C3_FloorCount ==
    /\ (pv_config.enabled /\ pv_config.step > 0) =>
           sidebar.pv_opts = FloorCount(pv_config.max - pv_config.min, pv_config.step)
    /\ (wind_config.enabled /\ wind_config.step > 0) =>
           sidebar.wind_opts
               = FloorCount(wind_config.max - wind_config.min, wind_config.step)
    /\ (hydro_config.enabled /\ hydro_config.step > 0) =>
           sidebar.hydro_opts
               = FloorCount(hydro_config.max - hydro_config.min, hydro_config.step)
    /\ (bess_config.enabled /\ bess_config.step_power > 0) =>
           sidebar.bess_opts
               = FloorCount(bess_config.max_power - bess_config.min_power,
                            bess_config.step_power)

\* C4: the option count of a disabled stored spec is 1, whatever its min, max
\* and step are.
C4_DisabledCountsOne ==
    /\ ~pv_config.enabled => sidebar.pv_opts = 1
    /\ ~wind_config.enabled => sidebar.wind_opts = 1
    /\ ~hydro_config.enabled => sidebar.hydro_opts = 1
    /\ ~bess_config.enabled => sidebar.bess_opts = 1

\* PV is stored disabled with a range that would count 5 options when enabled
C4_Witness ==
    /\ ~pv_config.enabled
    /\ pv_config.step > 0
    /\ IntQuot(pv_config.max - pv_config.min, pv_config.step) + 1 = 5
    /\ sidebar.pv_opts = 1

\* C5: the total shown is the product of the four option counts of the store,
\* in any order of the factors, and it is 1 when all four are disabled.
C5_TotalIsProduct ==
    /\ sidebar.pv_opts = PvOpts(pv_config)
    /\ sidebar.wind_opts = WindOpts(wind_config)
    /\ sidebar.hydro_opts = HydroOpts(hydro_config)
    /\ sidebar.bess_opts = BessOpts(bess_config)
    /\ sidebar.total_combinations
           = sidebar.bess_opts * (sidebar.hydro_opts * (sidebar.wind_opts * sidebar.pv_opts))
    /\ (\A c \in Components : ~Config(c).enabled) => sidebar.total_combinations = 1

\* all four components are stored disabled
C5_Witness ==
    /\ \A c \in Components : ~Config(c).enabled
    /\ sidebar.total_combinations = 1

\* C6: every stored capacity range satisfies min <= max.
C6_RangeOrdered ==
    /\ pv_config.min <= pv_config.max
    /\ wind_config.min <= wind_config.max
    /\ hydro_config.min <= hydro_config.max
    /\ bess_config.min_power <= bess_config.max_power

\* C7: the stored BESS spec satisfies min_soc < max_soc, both within [0,100].
C7_SocOrdered ==
    /\ bess_config.min_soc \in 0..100
    /\ bess_config.max_soc \in 0..100
    /\ bess_config.min_soc < bess_config.max_soc

\* C8: the stored step of every enabled component is strictly positive.
C8_EnabledStepPositive ==
    /\ pv_config.enabled => pv_config.step > 0
    /\ wind_config.enabled => wind_config.step > 0
    /\ hydro_config.enabled => hydro_config.step > 0
    /\ bess_config.enabled => bess_config.step_power > 0

\* an enabled spec was saved with the step slider at its lowest position
C8_Witness ==
    /\ selected_component = "none"
    /\ hydro_config.enabled
    /\ hydro_config.step = 1

\* C9: the stored hydro operating hours are within [1,24] and the stored BESS
\* charge and discharge efficiencies are within [0,100].
C9_HoursAndEfficiencyBounds ==
    /\ hydro_config.hours_per_day \in 1..24
    /\ bess_config.charge_eff \in 0..100
    /\ bess_config.discharge_eff \in 0..100

\* a hydro spec was saved with the hours slider at its lowest position
C9_Witness ==
    /\ selected_component = "none"
    /\ hydro_config.hours_per_day = 1

\* C10: the topology has the edge c -> bus exactly for the enabled generation
\* components c, always the edge bus -> load, and an edge between bus and bess
\* exactly when BESS is enabled.
C10_TopologyEdges ==
    /\ \A c \in GenerationComponents : HasEdge(c, "bus") <=> Config(c).enabled
    /\ HasEdge("bus", "load")
    /\ (HasEdge("bus", "bess") \/ HasEdge("bess", "bus")) <=> bess_config.enabled

\* PV and BESS are stored disabled, wind and hydro enabled
C10_Witness ==
    /\ ~pv_config.enabled
    /\ ~bess_config.enabled
    /\ wind_config.enabled
    /\ hydro_config.enabled
    /\ ~HasEdge("pv", "bus")
    /\ ~HasEdge("bus", "bess")
    /\ HasEdge("wind", "bus")

\* C11: when BESS is enabled the topology carries both flow directions between
\* bus and bess: charge (bus -> bess) and discharge (bess -> bus).
C11_BessBothDirections ==
    bess_config.enabled =>
        /\ <<"bus", "bess">> \in FlowDirections(topology_fig)
        /\ <<"bess", "bus">> \in FlowDirections(topology_fig)

\* C12: the estimated runtime is max(1, total * 0.05 / 60) minutes: exactly one
\* minute while total * 0.05 / 60 <= 1 (total = 1 gives 1), and total * 0.05 / 60
\* above that (total = 120000 gives 100).
C12_EstimatedRuntime ==
    /\ sidebar.total_combinations <= 1200 => sidebar.est_time = 1 * TicksPerMinute
    /\ sidebar.total_combinations > 1200 =>
           sidebar.est_time * 1200 = sidebar.total_combinations * TicksPerMinute
    /\ EstTime(1) = 1 * TicksPerMinute
    /\ EstTime(120000) = 100 * TicksPerMinute

\* a store whose total is above 1200 combinations: the estimate is above a minute
C12_Witness ==
    /\ sidebar.total_combinations > 1200
    /\ sidebar.est_time > TicksPerMinute

\* the band the advisory thresholds give to a count
AdvisoryBand(n) ==
    CASE n <= 10 -> "small"
      [] n >= 11 /\ n <= 50 -> "medium"
      [] n > 50 -> "large"

\* counts around both thresholds
BandCounts == {0 - 3, 0, 1, 9, 10, 11, 12, 49, 50, 51, 52, 60}

\* C13: the band of a per-component option count is small for count <= 10,
\* medium for 11..50 and large above 50, exactly one band for every count, with
\* the same thresholds in all four panels.
C13_AdvisoryBands ==
    /\ panel.band # "none" => panel.band = AdvisoryBand(panel.num_opts)
    /\ \A n \in BandCounts :
           /\ PvBand(n) = AdvisoryBand(n)
           /\ WindBand(n) = AdvisoryBand(n)
           /\ HydroBand(n) = AdvisoryBand(n)
           /\ BessBand(n) = AdvisoryBand(n)
           /\ Cardinality({b \in {"small", "medium", "large"} : PvBand(n) = b}) = 1

\* the PV panel shows 41 options (1.0 to 5.0 MW in steps of 0.1) as medium
C13_Witness ==
    /\ selected_component = "pv"
    /\ panel.band = "medium"
    /\ panel.num_opts = 41

\* C14: a stored spec changes only in a save of its own panel, and the save
\* replaces the whole spec by the submitted one: the stored spec after the step
\* is the record of the panel's widget values, never the old record with one
\* field overwritten.
C14_OnlyWholeSaves ==
    [][ \A c \in Components :
            Config(c)' # Config(c) => (selected_component = c /\ Config(c)' = form)
      ]_vars

\* C15: selecting a component for edit is possible in every state, also while
\* another panel is open; afterwards exactly that component is selected (the
\* selection is none or one of the four components), and the four stored specs
\* and the global settings are as before.
C15_SelectForEdit ==
    /\ [](/\ selected_component \in Components \cup {"none"}
          /\ \A c \in Components : ENABLED Configure(c))
    /\ [][ \A c \in Components :
               Configure(c) =>
                   /\ selected_component' = c
                   /\ store' = store
                   /\ load_profile' = load_profile
                   /\ target_unmet' = target_unmet
          ]_vars

\* the BESS panel is open with fresh widget values after a widget change made
\* in another panel was left behind
C15_Witness ==
    /\ selected_component = "bess"
    /\ form = FreshForm("bess")
    /\ edits = 1
    /\ store = <<DefaultPv, DefaultWind, DefaultHydro, DefaultBess>>
    /\ load_file_upload = "None"
    /\ target_unmet = 1

\* C16: the topology diagram and the search-space report on display are drawn
\* from the same store contents, the current ones: no run shows a topology of
\* the store before a write beside a report of the store after it.
C16_ViewsFromOneSnapshot ==
    /\ topology_fig = create_interactive_topology(pv_config, wind_config,
                                                  hydro_config, bess_config)
    /\ sidebar = SearchSpace(pv_config, wind_config, hydro_config, bess_config)

\* wind was disabled by a save: the diagram and the report both show it
C16_Witness ==
    /\ selected_component = "none"
    /\ ~wind_config.enabled
    /\ ~HasEdge("wind", "bus")
    /\ sidebar.wind_opts = 1
    /\ sidebar.total_combinations = sidebar.pv_opts * sidebar.hydro_opts * sidebar.bess_opts

\* C17: a save of one component, with its toggle on or off, leaves the stored
\* specs of the other three components and the global settings unchanged.
C17_SaveLeavesOthers ==
    [][ /\ (SavePv \/ DisablePv) =>
               UNCHANGED <<wind_config, hydro_config, bess_config,
                           load_profile, target_unmet>>
        /\ (SaveWind \/ DisableWind) =>
               UNCHANGED <<pv_config, hydro_config, bess_config,
                           load_profile, target_unmet>>
        /\ (SaveHydro \/ DisableHydro) =>
               UNCHANGED <<pv_config, wind_config, bess_config,
                           load_profile, target_unmet>>
        /\ (SaveBess \/ DisableBess) =>
               UNCHANGED <<pv_config, wind_config, hydro_config,
                           load_profile, target_unmet>>
      ]_vars

\* a wind spec with a submitted capacity range is stored, the other three specs
\* are the defaults
C17_Witness ==
    /\ selected_component = "none"
    /\ wind_config.enabled
    /\ wind_config.max # DefaultWind.max
    /\ pv_config = DefaultPv
    /\ hydro_config = DefaultHydro
    /\ bess_config = DefaultBess

\* C18: each of the four option counts is at least 1, and so is the total.
C18_CountsAtLeastOne ==
    /\ sidebar.pv_opts >= 1
    /\ sidebar.wind_opts >= 1
    /\ sidebar.hydro_opts >= 1
    /\ sidebar.bess_opts >= 1
    /\ sidebar.total_combinations >= 1

\* new is old with the enabled flag set to false and every other field kept
OnlyDisabled(old, new) ==
    /\ DOMAIN new = DOMAIN old
    /\ ~new.enabled
    /\ \A f \in DOMAIN old \ {"enabled"} : new[f] = old[f]

\* C19: a save with the enable toggle off sets the stored enabled flag to
\* false, keeps every other stored field of that component, and clears the
\* selection.
C19_DisableKeepsFields ==
    [][ /\ DisablePv =>
               (OnlyDisabled(pv_config, pv_config') /\ selected_component' = "none")
        /\ DisableWind =>
               (OnlyDisabled(wind_config, wind_config') /\ selected_component' = "none")
        /\ DisableHydro =>
               (OnlyDisabled(hydro_config, hydro_config') /\ selected_component' = "none")
        /\ DisableBess =>
               (OnlyDisabled(bess_config, bess_config') /\ selected_component' = "none")
      ]_vars

\* PV was disabled after a profile had been stored: the profile is still stored
C19_Witness ==
    /\ selected_component = "none"
    /\ ~pv_config.enabled
    /\ pv_config.profile = "pv_file"

\* a step of the open panel that is not a save: the toggle or an input changes
PanelEdit ==
    \E c \in {selected_component} \cap Components :
        \/ Toggle(c)
        \/ LET widgets == Widgets(c)
           IN  \E f \in DOMAIN widgets : \E v \in widgets[f] : SetWidget(c, f, v)

\* C20: cancel discards the edit: no stored spec changes while a component is
\* selected and its widgets are changed, none changes in the cancel, and after
\* the cancel no component is selected.
C20_CancelDiscardsEdit ==
    [][ IF store' = store
        THEN \A c \in Components : Cancel(c) => selected_component' = "none"
        ELSE ~PanelEdit /\ \A c \in Components : ~Configure(c) /\ ~Cancel(c)
      ]_vars

\* a panel was closed after a widget change and the four stored specs are the
\* defaults
C20_Witness ==
    /\ selected_component = "none"
    /\ edits = 1
    /\ load_file_upload = "None"
    /\ target_unmet = 1
    /\ store = <<DefaultPv, DefaultWind, DefaultHydro, DefaultBess>>

====
